---- MODULE Spec2Model ----
(***************************************************************************)
(* Model of meal_weekly_web.py: the SQLite store (users, meals), its       *)
(* start-up migration init_db, the user registry, the meal record store,   *)
(* the month and week queries and the calendar cell summary.               *)
(*                                                                         *)
(* Text values are sequences of one-character strings, so that strip(),    *)
(* len(), slicing and SQLite's BINARY comparison are computed rather than  *)
(* assumed.  A character outside ASCII is written as its code point, such  *)
(* as "U+B098".  SQL NULL / Python None is the value NULL.                 *)
(***************************************************************************)
EXTENDS Integers, Sequences, FiniteSets, TLC

VARIABLES db,       \* the connection's view of meals.db: schema and rows
          journal,  \* SQLite rollback journal: <<>> or <<snapshot at BEGIN>>
          pc,       \* position of a running init_db, "idle" between calls
          local,    \* init_db's local variables cols and rows
          now,      \* the clock read by datetime.now()
          ret,      \* the last call: its arguments and what it returned
          written,  \* history: the values last passed to upsert_meal per key
          orig,     \* history: the store init_db was first invoked on
          crashed,  \* history: where init_db last lost its connection
          q,        \* the last month / week query and its result
          cell      \* the last summarize_cell argument and result

vars == <<db, journal, pc, local, now, ret, written, orig, crashed, q, cell>>

\* ------------------------------------------------------------------ bounds

\* The clock takes the values 0..MaxClock.
MaxClock == 1

\* ------------------------------------------------------------------- text

NULL == <<"<NULL>">>

Digits == <<"0", "1", "2", "3", "4", "5", "6", "7", "8", "9">>

Digit(n) == Digits[n + 1]

\* Code points of the characters the model uses (SQLite compares TEXT bytewise,
\* which for UTF-8 is code point order).
CharCode(c) ==
    CASE c = " " -> 32
      [] c = "-" -> 45
      [] c \in {Digits[i] : i \in 1..10} -> 47 + (CHOOSE i \in 1..10 : Digits[i] = c)
      [] c = "T" -> 84
      [] c \in {"a", "b", "c", "d", "e", "f", "g", "h"} ->
            96 + (CHOOSE i \in 1..8 : <<"a", "b", "c", "d", "e", "f", "g", "h">>[i] = c)
      [] c = "x" -> 120
      [] c = "U+2026" -> 8230
      [] c = "U+B098" -> 45208
      [] OTHER -> 65535

RECURSIVE StrLess(_, _)
\* s < t for TEXT values under the BINARY collation
StrLess(s, t) ==
    IF t = <<>> THEN FALSE
    ELSE IF s = <<>> THEN TRUE
    ELSE IF Head(s) = Head(t) THEN StrLess(Tail(s), Tail(t))
    ELSE CharCode(Head(s)) < CharCode(Head(t))

StrLeq(s, t) == s = t \/ StrLess(s, t)

IsSpace(c) == c \in {" ", "\t", "\n"}

RECURSIVE lstrip(_)
lstrip(s) == IF s # <<>> /\ IsSpace(Head(s)) THEN lstrip(Tail(s)) ELSE s

RECURSIVE rstrip(_)
rstrip(s) ==
    IF s # <<>> /\ IsSpace(s[Len(s)]) THEN rstrip(SubSeq(s, 1, Len(s) - 1)) ELSE s

\* str.strip()
strip(s) == rstrip(lstrip(s))

\* (x or "")
OrEmpty(x) == IF x = NULL \/ x = <<>> THEN <<>> ELSE x

\* n copies of the character c
Rep(c, n) == [i \in 1..n |-> c]

\* datetime.now().isoformat(timespec="seconds"), for the clock value t
TimeStr(t) == <<"T", Digit(t)>>

\* date.isoformat(): YYYY-MM-DD
isoformat(d) ==
    << Digit(d.year \div 1000), Digit((d.year \div 100) % 10),
       Digit((d.year \div 10) % 10), Digit(d.year % 10), "-",
       Digit(d.month \div 10), Digit(d.month % 10), "-",
       Digit(d.day \div 10), Digit(d.day % 10) >>

date(y, m, d) == [year |-> y, month |-> m, day |-> d]

\* ----------------------------------------------------------------- schema

\* the default user, the one-character name U+B098
DefaultUser == <<"U+B098">>

NoTable == {}

UsersCols == {"user_name", "created_at"}

MultiCols == {"user_name", "meal_date", "breakfast", "lunch", "dinner",
              "snack", "memo", "updated_at"}

\* base_cols of init_db
base_cols == <<"meal_date", "breakfast", "lunch", "dinner", "snack", "memo",
               "updated_at">>

\* PRAGMA table_info(table_name): the column names, none for a missing table
table_columns(d, table_name) == d.schema[table_name]

\* an empty database file
EmptyDb ==
    [schema |-> [users |-> NoTable, meals |-> NoTable, meals_new |-> NoTable],
     users |-> {}, meals |-> {}, meals_new |-> {}]

\* conn.commit(): the journal is deleted
commit(j) == <<>>

\* an implicit BEGIN before a DML statement: the journal keeps the database
\* as it was, unless a transaction is already open
begin(d, j) == IF j = <<>> THEN <<d>> ELSE j

\* a connection in autocommit mode: nothing is undone
rollback_nothing(d, j) == d

\* what a connection lost without commit leaves on disk
rollback(d, j) == IF j = <<>> THEN d ELSE j[1]

\* CREATE TABLE IF NOT EXISTS users
create_users(d) ==
    IF d.schema.users # NoTable THEN d
    ELSE [d EXCEPT !.schema.users = UsersCols, !.users = {}]

\* INSERT OR IGNORE INTO users(user_name, created_at) VALUES (name, ts)
insert_or_ignore_user(d, name, ts) ==
    IF \E r \in d.users : r.user_name = name THEN d
    ELSE [d EXCEPT !.users = @ \cup {[user_name |-> name, created_at |-> ts]}]

\* cur.rowcount after that statement
insert_rowcount(d, name) == IF \E r \in d.users : r.user_name = name THEN 0 ELSE 1

\* CREATE TABLE meals (... PRIMARY KEY (user_name, meal_date))
create_meals(d) == [d EXCEPT !.schema.meals = MultiCols, !.meals = {}]

\* CREATE TABLE IF NOT EXISTS meals_new (...)
create_meals_new(d) ==
    IF d.schema.meals_new # NoTable THEN d
    ELSE [d EXCEPT !.schema.meals_new = MultiCols, !.meals_new = {}]

\* row_map.get(c) without the default: None for a missing column
row_get_none(cols, r, c) == IF c \in cols THEN r[c] ELSE NULL

\* row_map.get(c, "") for row_map = dict(zip(select_cols, r))
row_get(cols, r, c) == IF c \in cols THEN r[c] ELSE <<>>

\* the tuple init_db inserts for the legacy row r of a table with columns cols
migrated_row(cols, r) ==
    [user_name |-> DefaultUser,
     meal_date |-> row_get(cols, r, "meal_date"),
     breakfast |-> row_get(cols, r, "breakfast"),
     lunch |-> row_get(cols, r, "lunch"),
     dinner |-> row_get(cols, r, "dinner"),
     snack |-> row_get(cols, r, "snack"),
     memo |-> row_get(cols, r, "memo"),
     updated_at |-> row_get(cols, r, "updated_at")]

SameKey(r, s) == r.user_name = s.user_name /\ r.meal_date = s.meal_date

\* INSERT OR REPLACE INTO meals_new ... : a row with the same key is replaced
insert_or_replace_new(d, row) ==
    [d EXCEPT !.meals_new = {r \in @ : ~SameKey(r, row)} \cup {row}]

\* DROP TABLE meals
drop_meals(d) == [d EXCEPT !.schema.meals = NoTable, !.meals = {}]

\* ALTER TABLE meals_new RENAME TO meals
rename_new(d) ==
    [d EXCEPT !.schema.meals = d.schema.meals_new, !.meals = d.meals_new,
              !.schema.meals_new = NoTable, !.meals_new = {}]

\* select_cols = [c for c in base_cols if c in existing]
select_cols(cols) == {base_cols[i] : i \in {j \in 1..Len(base_cols) : base_cols[j] \in cols}}

\* SELECT select_cols FROM meals: each row restricted to the selected columns
select_rows(d, cols) == {[c \in select_cols(cols) |-> r[c]] : r \in d.meals}

RECURSIVE copy_rows(_, _, _)
\* the loop "for r in rows: INSERT OR REPLACE INTO meals_new"
copy_rows(d, cols, rows) ==
    IF rows = {} THEN d
    ELSE LET r == CHOOSE x \in rows : TRUE
         IN copy_rows(insert_or_replace_new(d, migrated_row(select_cols(cols), r)),
                      cols, rows \ {r})

\* init_db run from its first to its last statement
init_db(d, ts) ==
    LET d1 == insert_or_ignore_user(create_users(d), DefaultUser, ts)
    IN IF d1.schema.meals = NoTable THEN create_meals(d1)
       ELSE LET cols == table_columns(d1, "meals")
            IN IF "user_name" \in cols THEN d1
               ELSE LET d2 == create_meals_new(d1)
                        d3 == IF "meal_date" \in cols
                              THEN copy_rows(d2, cols, select_rows(d2, cols))
                              ELSE d2
                    IN rename_new(drop_meals(d3))

\* ------------------------------------------------------------ user registry

MaxNameLen == 20

\* the rows of the users table that carry the name
UserRows(d, name) == {r \in d.users : r.user_name = name}

RECURSIVE RowNames(_)
\* SELECT user_name FROM users ORDER BY user_name: one entry per row
RowNames(rows) ==
    IF rows = {} THEN <<>>
    ELSE LET m == CHOOSE x \in rows : \A y \in rows : StrLeq(x.user_name, y.user_name)
         IN <<m.user_name>> \o RowNames(rows \ {m})

list_users(d) == RowNames(d.users)

\* how often a value occurs in a sequence
Count(seq, v) == Cardinality({i \in 1..Len(seq) : seq[i] = v})

\* add_user with the length test off by one
add_user_len_off_by_one(d, user_name, ts) ==
    LET name == strip(OrEmpty(user_name))
    IN IF name = <<>> THEN [db |-> d, ok |-> FALSE]
       ELSE IF Len(name) >= MaxNameLen THEN [db |-> d, ok |-> FALSE]
       ELSE [db |-> insert_or_ignore_user(d, name, ts),
             ok |-> insert_rowcount(d, name) = 1]

\* add_user: the new database and the success flag
add_user(d, user_name, ts) ==
    LET name == strip(OrEmpty(user_name))
    IN IF name = <<>> THEN [db |-> d, ok |-> FALSE]
       ELSE IF Len(name) > MaxNameLen THEN [db |-> d, ok |-> FALSE]
       ELSE [db |-> insert_or_ignore_user(d, name, ts),
             ok |-> insert_rowcount(d, name) = 1]

\* SELECT 1 FROM meals WHERE user_name=? LIMIT 1
user_has_meals(d, user_name) == \E r \in d.meals : r.user_name = user_name

\* delete_user comparing the name with the default user before trimming it
delete_user_guard_untrimmed(d, user_name, delete_meals) ==
    LET name == strip(OrEmpty(user_name))
    IN IF name = <<>> THEN [db |-> d, ok |-> FALSE]
       ELSE IF user_name = DefaultUser THEN [db |-> d, ok |-> FALSE]
       ELSE LET d1 == IF delete_meals
                      THEN [d EXCEPT !.meals = {r \in @ : r.user_name # name}]
                      ELSE d
            IN [db |-> [d1 EXCEPT !.users = {r \in @ : r.user_name # name}],
                ok |-> TRUE]

\* delete_user with the WHERE clause of the meals deletion left out
delete_user_all_meals(d, user_name, delete_meals) ==
    LET name == strip(OrEmpty(user_name))
    IN IF name = <<>> THEN [db |-> d, ok |-> FALSE]
       ELSE IF name = DefaultUser THEN [db |-> d, ok |-> FALSE]
       ELSE LET d1 == IF delete_meals THEN [d EXCEPT !.meals = {}] ELSE d
            IN [db |-> [d1 EXCEPT !.users = {r \in @ : r.user_name # name}],
                ok |-> TRUE]

\* delete_user deleting the meals whatever delete_meals says
delete_user_always_cascade(d, user_name, delete_meals) ==
    LET name == strip(OrEmpty(user_name))
    IN IF name = <<>> THEN [db |-> d, ok |-> FALSE]
       ELSE IF name = DefaultUser THEN [db |-> d, ok |-> FALSE]
       ELSE LET d1 == [d EXCEPT !.meals = {r \in @ : r.user_name # name}]
            IN [db |-> [d1 EXCEPT !.users = {r \in @ : r.user_name # name}],
                ok |-> TRUE]

\* delete_user: the new database and the success flag
delete_user(d, user_name, delete_meals) ==
    LET name == strip(OrEmpty(user_name))
    IN IF name = <<>> THEN [db |-> d, ok |-> FALSE]
       ELSE IF name = DefaultUser THEN [db |-> d, ok |-> FALSE]
       ELSE LET d1 == IF delete_meals
                      THEN [d EXCEPT !.meals = {r \in @ : r.user_name # name}]
                      ELSE d
            IN [db |-> [d1 EXCEPT !.users = {r \in @ : r.user_name # name}],
                ok |-> TRUE]

\* ------------------------------------------------------------- meal records

\* upsert_meal with memo left out of the DO UPDATE SET list
upsert_meal_keeps_memo(d, user_name, meal_date, v, ts) ==
    LET row == [user_name |-> user_name, meal_date |-> meal_date,
                breakfast |-> v[1], lunch |-> v[2], dinner |-> v[3],
                snack |-> v[4], memo |-> v[5], updated_at |-> ts]
    IN IF \E r \in d.meals : SameKey(r, row)
       THEN [d EXCEPT !.meals =
                {IF SameKey(r, row)
                 THEN [r EXCEPT !.breakfast = row.breakfast, !.lunch = row.lunch,
                                !.dinner = row.dinner, !.snack = row.snack,
                                !.updated_at = row.updated_at]
                 ELSE r : r \in @}]
       ELSE [d EXCEPT !.meals = @ \cup {row}]

\* upsert_meal against the key of the single-user table (meal_date alone)
upsert_meal_date_key(d, user_name, meal_date, v, ts) ==
    LET row == [user_name |-> user_name, meal_date |-> meal_date,
                breakfast |-> v[1], lunch |-> v[2], dinner |-> v[3],
                snack |-> v[4], memo |-> v[5], updated_at |-> ts]
    IN IF \E r \in d.meals : r.meal_date = row.meal_date
       THEN [d EXCEPT !.meals =
                {IF r.meal_date = row.meal_date
                 THEN [r EXCEPT !.breakfast = row.breakfast, !.lunch = row.lunch,
                                !.dinner = row.dinner, !.snack = row.snack,
                                !.memo = row.memo, !.updated_at = row.updated_at]
                 ELSE r : r \in @}]
       ELSE [d EXCEPT !.meals = @ \cup {row}]

\* INSERT INTO meals ... ON CONFLICT(user_name, meal_date) DO UPDATE SET ...
upsert_meal(d, user_name, meal_date, v, ts) ==
    LET row == [user_name |-> user_name, meal_date |-> meal_date,
                breakfast |-> v[1], lunch |-> v[2], dinner |-> v[3],
                snack |-> v[4], memo |-> v[5], updated_at |-> ts]
    IN IF \E r \in d.meals : SameKey(r, row)
       THEN [d EXCEPT !.meals =
                {IF SameKey(r, row)
                 THEN [r EXCEPT !.breakfast = row.breakfast, !.lunch = row.lunch,
                                !.dinner = row.dinner, !.snack = row.snack,
                                !.memo = row.memo, !.updated_at = row.updated_at]
                 ELSE r : r \in @}]
       ELSE [d EXCEPT !.meals = @ \cup {row}]

\* the rows of meals with the key (user_name, meal_date)
KeyRows(d, user_name, meal_date) ==
    {r \in d.meals : r.user_name = user_name /\ r.meal_date = meal_date}

\* load_meal: cur.fetchone() of the five value columns, <<>> for None
load_meal(d, user_name, meal_date) ==
    LET rows == KeyRows(d, user_name, meal_date)
    IN IF rows = {} THEN <<>>
       ELSE LET r == CHOOSE x \in rows : TRUE
            IN <<r.breakfast, r.lunch, r.dinner, r.snack, r.memo>>

\* ------------------------------------------------------------------ inputs

Name20 == Rep("x", MaxNameLen)

\* the names passed to add_user and delete_user
NameInputs ==
    { NULL, <<>>, <<" ">>,
      DefaultUser, <<" ">> \o DefaultUser \o <<" ">>,
      <<"a">>, <<" ", "a">>,
      Name20, <<" ">> \o Name20 \o <<" ">>, Name20 \o <<"x">> }

\* the names the meal-store runs pass to add_user and delete_user
FewNames == {<<>>, <<" ">>, DefaultUser, <<"a">>, <<" ", "a", " ">>}

\* the users meals are saved for: the current user of the page, a name that
\* came out of the registry (so a trimmed one)
MealUsers == {DefaultUser, <<"a">>}

\* the dates meals are saved for
Dates == {isoformat(date(2024, 12, 31)), isoformat(date(2025, 1, 1))}

\* the (breakfast, lunch, dinner, snack, memo) values that are saved
MealInputs ==
    { << <<"a">>, <<"b">>, <<"c">>, <<"d">>, <<"e">> >>,
      << <<"f">>, <<>>, <<"g">>, <<>>, <<>> >> }

MealKeys == MealUsers \X Dates

\* ----------------------------------------------------------- idle values

NoRet ==
    [op |-> "none", name |-> <<>>, cascade |-> FALSE, had |-> FALSE,
     ok |-> FALSE, date |-> <<>>, vals |-> <<>>]

NoLocal == [cols |-> {}, rows |-> {}, start |-> EmptyDb]

NoQuery == [op |-> "none"]

NoCell == [op |-> "none"]

NothingWritten == [k \in MealKeys |-> <<>>]

\* ---------------------------------------------------------------- actions

\* a call of init_db() between two page runs
InitDb ==
    /\ pc = "idle"
    /\ db' = init_db(db, TimeStr(now))
    /\ ret' = [NoRet EXCEPT !.op = "init_db", !.ok = TRUE]
    /\ UNCHANGED <<journal, pc, local, now, written, orig, crashed, q, cell>>

AddUser(name) ==
    /\ pc = "idle"
    /\ LET r == add_user(db, name, TimeStr(now))
       IN /\ db' = r.db
          /\ ret' = [NoRet EXCEPT !.op = "add_user", !.name = name, !.ok = r.ok]
    /\ UNCHANGED <<journal, pc, local, now, written, orig, crashed, q, cell>>

\* the delete button: user_has_meals for the warning, then delete_user
DeleteUser(name, delete_meals) ==
    /\ pc = "idle"
    /\ LET r == delete_user(db, name, delete_meals)
       IN /\ db' = r.db
          /\ ret' = [NoRet EXCEPT !.op = "delete_user", !.name = name,
                                  !.cascade = delete_meals,
                                  !.had = user_has_meals(db, name), !.ok = r.ok]
    /\ UNCHANGED <<journal, pc, local, now, written, orig, crashed, q, cell>>

\* the save button: the form was filled from load_meal, then upsert_meal
UpsertMeal(user_name, meal_date, v) ==
    /\ pc = "idle"
    /\ db' = upsert_meal(db, user_name, meal_date, v, TimeStr(now))
    /\ ret' = [NoRet EXCEPT !.op = "upsert_meal", !.name = user_name,
                            !.date = meal_date, !.vals = v, !.ok = TRUE,
                            !.had = load_meal(db, user_name, meal_date) # <<>>]
    /\ UNCHANGED <<journal, pc, local, now, orig, crashed, q, cell>>

\* a second passes
Tick ==
    /\ now < MaxClock
    /\ now' = now + 1
    /\ ret' = [NoRet EXCEPT !.op = "tick"]
    /\ UNCHANGED <<db, journal, pc, local, written, orig, crashed, q, cell>>

\* ------------------------------------------------- the store in daily use

\* the store after the first start of the application on an empty file
Init ==
    /\ db = init_db(EmptyDb, TimeStr(0))
    /\ journal = <<>>
    /\ pc = "idle"
    /\ local = NoLocal
    /\ now = 0
    /\ ret = NoRet
    /\ written = NothingWritten
    /\ orig = EmptyDb
    /\ crashed = "never"
    /\ q = NoQuery
    /\ cell = NoCell

\* the registry in use: every name input, one saved day per user
Next ==
    \/ InitDb
    \/ \E name \in NameInputs : AddUser(name)
    \/ \E name \in NameInputs, c \in BOOLEAN : DeleteUser(name, c)
    \/ \E u \in MealUsers, v \in MealInputs :
          UpsertMeal(u, isoformat(date(2024, 12, 31)), v) /\ UNCHANGED written
    \/ Tick

Spec == Init /\ [][Next]_vars

\* the meal store in use: every saved day and value, the names of two users
NextMeals ==
    \/ InitDb
    \/ \E name \in FewNames : AddUser(name)
    \/ \E name \in FewNames, c \in BOOLEAN : DeleteUser(name, c)
    \/ \E u \in MealUsers, d \in Dates, v \in MealInputs :
          UpsertMeal(u, d, v) /\ UNCHANGED written
    \/ Tick

SpecMeals == Init /\ [][NextMeals]_vars

\* saving only: the history variable follows every save
NextUpsert ==
    \/ \E u \in MealUsers, d \in Dates, v \in MealInputs :
          /\ UpsertMeal(u, d, v)
          /\ written' = [written EXCEPT ![<<u, d>>] = v]
    \/ Tick

SpecUpsert == Init /\ [][NextUpsert]_vars

\* --------------------------------------------- init_db statement by statement

\* The sqlite3 module opens a transaction before the first INSERT and keeps it
\* open over the DDL statements that follow (Python 3.6 and later, which the
\* f-strings of the file need); CREATE TABLE users runs before it, on its own.

\* the columns every single-user meals table has
LegacyCore == {"meal_date", "breakfast", "lunch", "dinner"}

\* the column sets of the single-user tables: snack, memo and updated_at may be
\* missing, a column init_db does not know may be there
LegacyColSets == {LegacyCore \cup S : S \in SUBSET {"snack", "memo", "updated_at", "kcal"}}

\* single-user rows, over every column a single-user table may have
LegacyPool ==
    { [meal_date |-> isoformat(date(2024, 1, 1)), breakfast |-> <<"a">>,
       lunch |-> <<"b">>, dinner |-> <<"c">>, snack |-> <<>>, memo |-> <<>>,
       updated_at |-> TimeStr(0), kcal |-> <<"x">>],
      [meal_date |-> isoformat(date(2024, 12, 31)), breakfast |-> <<"d">>,
       lunch |-> <<>>, dinner |-> <<"e">>, snack |-> <<"f">>, memo |-> <<"g">>,
       updated_at |-> TimeStr(1), kcal |-> <<>>],
      [meal_date |-> isoformat(date(2025, 1, 1)), breakfast |-> <<>>,
       lunch |-> <<"h">>, dinner |-> <<>>, snack |-> <<"a">>, memo |-> NULL,
       updated_at |-> TimeStr(0), kcal |-> <<"x">>] }

\* a single-user store: no users table, a meals table keyed by meal_date
LegacyDb(cols, rows) ==
    [EmptyDb EXCEPT !.schema.meals = cols,
                    !.meals = {[c \in cols |-> r[c]] : r \in rows}]

\* a multi-user store in use: two users, three saved days
UsedDb ==
    LET d1 == add_user(init_db(EmptyDb, TimeStr(0)), <<"a">>, TimeStr(0)).db
        d2 == upsert_meal(d1, DefaultUser, isoformat(date(2024, 12, 31)),
                          << <<"a">>, <<"b">>, <<"c">>, <<"d">>, <<"e">> >>, TimeStr(0))
        d3 == upsert_meal(d2, <<"a">>, isoformat(date(2024, 12, 31)),
                          << <<"f">>, <<>>, <<"g">>, <<>>, <<>> >>, TimeStr(0))
    IN upsert_meal(d3, <<"a">>, isoformat(date(2025, 1, 1)),
                   << <<"a">>, <<"b">>, <<"c">>, <<"d">>, <<"e">> >>, TimeStr(1))

\* the stores init_db may find
StartStores ==
    {EmptyDb, init_db(EmptyDb, TimeStr(0)), UsedDb}
    \cup {LegacyDb(cols, rows) : cols \in LegacyColSets, rows \in SUBSET LegacyPool}

IsLegacy(d) == d.schema.meals # NoTable /\ "user_name" \notin d.schema.meals

IsMulti(d) == "user_name" \in d.schema.meals

\* lines 40-49: connect, CREATE TABLE IF NOT EXISTS users (outside a transaction)
StepCreateUsers ==
    /\ pc = "idle"
    /\ db' = create_users(db)
    /\ pc' = "insert_default"
    /\ local' = [NoLocal EXCEPT !.start = db]
    /\ UNCHANGED <<journal, now, ret, written, orig, crashed, q, cell>>

\* lines 52-55: INSERT OR IGNORE the default user; the transaction begins
StepInsertDefault ==
    /\ pc = "insert_default"
    /\ journal' = begin(db, journal)
    /\ db' = insert_or_ignore_user(db, DefaultUser, TimeStr(now))
    /\ pc' = "check_meals"
    /\ UNCHANGED <<local, now, ret, written, orig, crashed, q, cell>>

\* lines 58-75: no meals table: create it
StepCreateMeals ==
    /\ pc = "check_meals"
    /\ db.schema.meals = NoTable
    /\ db' = create_meals(db)
    /\ pc' = "commit"
    /\ UNCHANGED <<journal, local, now, ret, written, orig, crashed, q, cell>>

\* lines 81-84: the meals table has a user_name column
StepAlreadyMulti ==
    /\ pc = "check_meals"
    /\ db.schema.meals # NoTable
    /\ "user_name" \in table_columns(db, "meals")
    /\ pc' = "commit"
    /\ UNCHANGED <<db, journal, local, now, ret, written, orig, crashed, q, cell>>

\* lines 81-103: a single-user table: CREATE TABLE IF NOT EXISTS meals_new
StepCreateNew ==
    /\ pc = "check_meals"
    /\ db.schema.meals # NoTable
    /\ "user_name" \notin table_columns(db, "meals")
    /\ local' = [local EXCEPT !.cols = table_columns(db, "meals")]
    /\ db' = create_meals_new(db)
    /\ pc' = "select"
    /\ UNCHANGED <<journal, now, ret, written, orig, crashed, q, cell>>

\* lines 107-114: SELECT the known columns of every row
StepSelect ==
    /\ pc = "select"
    /\ local' = [local EXCEPT !.rows = IF "meal_date" \in local.cols
                                       THEN select_rows(db, local.cols) ELSE {}]
    /\ pc' = "copy"
    /\ UNCHANGED <<db, journal, now, ret, written, orig, crashed, q, cell>>

\* lines 117-132: one turn of the loop, in whatever order the rows came
StepCopyRow ==
    /\ pc = "copy"
    /\ \E r \in local.rows :
          /\ db' = insert_or_replace_new(db, migrated_row(select_cols(local.cols), r))
          /\ local' = [local EXCEPT !.rows = @ \ {r}]
    /\ UNCHANGED <<journal, pc, now, ret, written, orig, crashed, q, cell>>

\* line 135: DROP TABLE meals, after the loop
StepDrop ==
    /\ pc = "copy"
    /\ local.rows = {}
    /\ db' = drop_meals(db)
    /\ pc' = "rename"
    /\ UNCHANGED <<journal, local, now, ret, written, orig, crashed, q, cell>>

\* line 136: ALTER TABLE meals_new RENAME TO meals
StepRename ==
    /\ pc = "rename"
    /\ db' = rename_new(db)
    /\ pc' = "commit"
    /\ UNCHANGED <<journal, local, now, ret, written, orig, crashed, q, cell>>

\* lines 76-78, 84-86, 138-139: conn.commit(), conn.close(), return
StepCommit ==
    /\ pc = "commit"
    /\ journal' = commit(journal)
    /\ pc' = "idle"
    /\ local' = [NoLocal EXCEPT !.start = local.start]
    /\ ret' = [NoRet EXCEPT !.op = "init_db", !.ok = TRUE]
    /\ UNCHANGED <<db, now, written, orig, crashed, q, cell>>

InitDbStep ==
    \/ StepCreateUsers
    \/ StepInsertDefault
    \/ StepCreateMeals
    \/ StepAlreadyMulti
    \/ StepCreateNew
    \/ StepSelect
    \/ StepCopyRow
    \/ StepDrop
    \/ StepRename
    \/ StepCommit

\* init_db is interrupted (the process is killed, a statement raises): the
\* connection is lost without commit
Crash ==
    /\ pc # "idle"
    /\ db' = rollback(db, journal)
    /\ journal' = <<>>
    /\ crashed' = pc
    /\ pc' = "idle"
    /\ local' = NoLocal
    /\ ret' = [NoRet EXCEPT !.op = "crash"]
    /\ UNCHANGED <<now, written, orig, q, cell>>

InitMigrate ==
    /\ db \in StartStores
    /\ journal = <<>>
    /\ pc = "idle"
    /\ local = NoLocal
    /\ now = 0
    /\ ret = NoRet
    /\ written = NothingWritten
    /\ orig = db
    /\ crashed = "never"
    /\ q = NoQuery
    /\ cell = NoCell

NextMigrate ==
    \/ InitDbStep
    \/ Crash
    \/ Tick

SpecMigrate == InitMigrate /\ [][NextMigrate]_vars

\* ------------------------------------------------------- month and week

IsLeap(y) == y % 4 = 0 /\ (y % 100 # 0 \/ y % 400 = 0)

DaysInMonth(y, m) ==
    IF m = 2 THEN (IF IsLeap(y) THEN 29 ELSE 28)
    ELSE IF m \in {4, 6, 9, 11} THEN 30 ELSE 31

\* the days before January 1 of year y, counted from 0001-01-01
days_before_year(y) ==
    (y - 1) * 365 + (y - 1) \div 4 - (y - 1) \div 100 + (y - 1) \div 400

RECURSIVE days_before_month(_, _)
days_before_month(y, m) ==
    IF m = 1 THEN 0 ELSE days_before_month(y, m - 1) + DaysInMonth(y, m - 1)

\* date.toordinal()
toordinal(d) == days_before_year(d.year) + days_before_month(d.year, d.month) + d.day

\* the years the date arithmetic of the model stays within
Years == 2023..2026

\* date.fromordinal(n)
fromordinal(n) ==
    LET y == CHOOSE yy \in Years :
                days_before_year(yy) < n /\ n <= days_before_year(yy + 1)
        k == n - days_before_year(y)
        m == CHOOSE mm \in 1..12 :
                days_before_month(y, mm) < k
                /\ k <= days_before_month(y, mm) + DaysInMonth(y, mm)
    IN date(y, m, k - days_before_month(y, m))

\* date + timedelta(days=n)
plus_days(d, n) == fromordinal(toordinal(d) + n)

\* date.weekday(): Monday is 0
weekday(d) == (toordinal(d) + 6) % 7

week_dates(monday) == [i \in 1..7 |-> plus_days(monday, i - 1)]

RECURSIVE order_by_meal_date(_)
\* ORDER BY meal_date
order_by_meal_date(rows) ==
    IF rows = {} THEN <<>>
    ELSE LET m == CHOOSE x \in rows : \A y \in rows : StrLeq(x.meal_date, y.meal_date)
         IN <<m>> \o order_by_meal_date(rows \ {m})

\* WHERE user_name=? AND meal_date >= ? AND meal_date < ?
where_range(d, user_name, start, end) ==
    {r \in d.meals : /\ r.user_name = user_name
                     /\ StrLeq(start, r.meal_date)
                     /\ StrLess(r.meal_date, end)}

\* load_month with the year of the end boundary never advanced
month_end_same_year(year, month) ==
    IF month = 12 THEN date(year, 1, 1) ELSE date(year, month + 1, 1)

\* the end boundary of load_month
month_end(year, month) ==
    IF month = 12 THEN date(year + 1, 1, 1) ELSE date(year, month + 1, 1)

\* load_month: the data frame, a sequence of rows without user_name
load_month(d, user_name, year, month) ==
    LET start == date(year, month, 1)
        end == month_end(year, month)
        rows == where_range(d, user_name, isoformat(start), isoformat(end))
    IN order_by_meal_date(
          {[c \in MultiCols \ {"user_name"} |-> r[c]] : r \in rows})

\* the week ending a day early
week_end_six_days(monday) == plus_days(monday, 6)

\* end = monday_sel + timedelta(days=7)
week_end(monday) == plus_days(monday, 7)

\* the columns of the week query
WeekCols == {"meal_date", "breakfast", "lunch", "dinner", "snack", "memo"}

\* df_week of the weekly summary
week_query(d, user_name, monday) ==
    order_by_meal_date(
       {[c \in WeekCols |-> r[c]] :
           r \in where_range(d, user_name, isoformat(monday), isoformat(week_end(monday)))})

\* fillna(""): a missing value becomes the empty string
fillna(x) == IF x = NULL THEN <<>> ELSE x

RECURSIVE left_merge(_, _)
\* preview.merge(df_week, on="meal_date", how="left").fillna(""): for each day
\* the rows of df_week with that meal_date, or one row of missing values
left_merge(days, df) ==
    IF days = <<>> THEN <<>>
    ELSE LET hits == SelectSeq(df, LAMBDA r : r.meal_date = Head(days))
             blank == [c \in WeekCols |-> IF c = "meal_date" THEN Head(days) ELSE <<>>]
             rows == IF hits = <<>> THEN <<blank>>
                     ELSE [i \in 1..Len(hits) |-> [c \in WeekCols |-> fillna(hits[i][c])]]
         IN rows \o left_merge(Tail(days), df)

\* the weekly summary for the day picked in the date input
week_view(d, user_name, picked) ==
    LET monday_sel == plus_days(picked, 0 - weekday(picked))
        days == week_dates(monday_sel)
        df_week == week_query(d, user_name, monday_sel)
    IN [op |-> "week", user |-> user_name, picked |-> picked, monday |-> monday_sel,
        df_week |-> df_week,
        preview |-> left_merge([i \in 1..7 |-> isoformat(days[i])], df_week)]

\* the days of one week, the Sunday before it and the Monday after it
WeekPool == {date(2024, 12, 29), date(2024, 12, 30), date(2024, 12, 31),
             date(2025, 1, 1), date(2025, 1, 2), date(2025, 1, 3),
             date(2025, 1, 4), date(2025, 1, 5), date(2025, 1, 6)}

\* days at the ends of months
MonthEdges == {date(2024, 11, 30), date(2024, 12, 1), date(2025, 1, 31),
               date(2025, 2, 1)}

QueryUsers == {DefaultUser, <<"a">>}

\* the record a user saved for a day: different for every user and day
QueryRow(u, d) ==
    [user_name |-> u, meal_date |-> isoformat(d), breakfast |-> u,
     lunch |-> <<Digit(d.day % 10)>>, dinner |-> <<Digit(d.month % 10)>>,
     snack |-> <<>>, memo |-> <<"x">>, updated_at |-> TimeStr(0)]

\* the day sets of the default user: no day, one day, the seven days of the
\* week, all days of the pool but one, all of them
WeekDaySets ==
    {S \in SUBSET WeekPool : Cardinality(S) \in {0, 1, 8, 9}}
    \cup {{d \in WeekPool : d \notin {date(2024, 12, 29), date(2025, 1, 6)}}}

\* stores to query: a day set of the week pool, with or without the month
\* edges, for the default user; nothing or two days for the other user
QueryStores ==
    { [init_db(EmptyDb, TimeStr(0)) EXCEPT !.meals =
          {QueryRow(DefaultUser, d) : d \in W \cup M}
          \cup {QueryRow(<<"a">>, d) : d \in B}] :
        W \in WeekDaySets, M \in {{}, MonthEdges},
        B \in {{}, {date(2024, 12, 31), date(2025, 1, 1)}} }

\* the days picked in the date input of the weekly tab
PickedDays == {date(2024, 12, 29), date(2024, 12, 30), date(2025, 1, 1),
               date(2025, 1, 5), date(2025, 1, 6)}

\* the years picked in the monthly tab
PickedYears == {2024, 2025}

\* the monthly tab: load_month for the current user
LoadMonth(user_name, year, month) ==
    /\ q' = [op |-> "month", user |-> user_name, year |-> year, month |-> month,
             start |-> isoformat(date(year, month, 1)),
             end |-> isoformat(month_end(year, month)),
             df |-> load_month(db, user_name, year, month)]
    /\ UNCHANGED <<db, journal, pc, local, now, ret, written, orig, crashed, cell>>

\* the weekly tab: the summary table for the current user
WeekView(user_name, picked) ==
    /\ q' = week_view(db, user_name, picked)
    /\ UNCHANGED <<db, journal, pc, local, now, ret, written, orig, crashed, cell>>

InitQuery ==
    /\ db \in QueryStores
    /\ journal = <<>>
    /\ pc = "idle"
    /\ local = NoLocal
    /\ now = 0
    /\ ret = NoRet
    /\ written = NothingWritten
    /\ orig = EmptyDb
    /\ crashed = "never"
    /\ q = NoQuery
    /\ cell = NoCell

NextQuery ==
    \/ \E u \in QueryUsers, y \in PickedYears, m \in 1..12 : LoadMonth(u, y, m)
    \/ \E u \in QueryUsers, d \in PickedDays : WeekView(u, d)

SpecQuery == InitQuery /\ [][NextQuery]_vars

\* ------------------------------------------------------ calendar cells

\* the badge characters: sun, rice, moon, cookie; the memo mark; the ellipsis
BadgeBreakfast == "U+1F31E"

BadgeLunch == "U+1F35A"

BadgeDinner == "U+1F319"

BadgeSnack == "U+1F36A"

MemoMark == "U+1F4DD"

Ellipsis == "U+2026"

\* the length main and memo are cut to
CellTextLen == 18

\* text[:n]
prefix(text, n) == SubSeq(text, 1, IF Len(text) < n THEN Len(text) ELSE n)

\* short(text, n): trimmed, cut to n characters, an ellipsis when cut
short(text, n) ==
    LET t == strip(OrEmpty(text))
    IN prefix(t, n) \o (IF Len(t) > n THEN <<Ellipsis>> ELSE <<>>)

RECURSIVE join(_, _)
\* sep.join(parts)
join(sep, parts) ==
    IF parts = <<>> THEN <<>>
    ELSE IF Len(parts) = 1 THEN parts[1]
    ELSE parts[1] \o sep \o join(sep, Tail(parts))

\* b or l or d: breakfast first
first_of_breakfast_first(d, l, b) ==
    IF b # <<>> THEN b ELSE IF l # <<>> THEN l ELSE IF d # <<>> THEN d ELSE <<>>

\* d or l or b or ""
first_of(d, l, b) ==
    IF d # <<>> THEN d ELSE IF l # <<>> THEN l ELSE IF b # <<>> THEN b ELSE <<>>

\* summarize_cell(row); row is <<>> for None, else <<the row>>
summarize_cell(row) ==
    IF row = <<>> THEN <<>>
    ELSE
      LET b == strip(OrEmpty(row[1].breakfast))
          l == strip(OrEmpty(row[1].lunch))
          d == strip(OrEmpty(row[1].dinner))
          sn == strip(OrEmpty(row[1].snack))
          m == strip(OrEmpty(row[1].memo))
          badges == (IF b # <<>> THEN << <<BadgeBreakfast>> >> ELSE <<>>)
                    \o (IF l # <<>> THEN << <<BadgeLunch>> >> ELSE <<>>)
                    \o (IF d # <<>> THEN << <<BadgeDinner>> >> ELSE <<>>)
                    \o (IF sn # <<>> THEN << <<BadgeSnack>> >> ELSE <<>>)
          main == short(first_of(d, l, b), CellTextLen)
          memo == IF m # <<>> THEN short(m, CellTextLen) ELSE <<>>
          line1 == IF badges # <<>> \/ main # <<>>
                   THEN strip(join(<<" ">>, badges) \o <<" ">> \o main)
                   ELSE <<>>
          line2 == IF memo # <<>> THEN strip(<<MemoMark, " ">> \o memo) ELSE <<>>
      IN strip(line1 \o (IF line2 # <<>> THEN <<"\n">> \o line2 ELSE <<>>))

\* texts of 17 characters and around
Text17 == Rep("x", CellTextLen - 1)

\* the breakfast, lunch, dinner, snack and memo texts of the rows summarised
BreakfastInputs == {NULL, <<>>, <<"a", "b">>, Text17 \o <<"a", "b">>}

LunchInputs == {<<>>, <<" ">>, <<"c">>}

DinnerInputs ==
    { <<>>, <<" ">>, <<" ", "a", " ">>, Text17 \o <<"d">>, Text17 \o <<"d", "e">>,
      Text17 \o <<" ", "e">>, <<" ">> \o Text17 \o <<"d", " ">> }

SnackInputs == {NULL, <<>>, <<" ">>, <<"d">>}

MemoInputs == {NULL, <<>>, <<" ">>, <<"e", " ", "f">>, Text17 \o <<"g">>, Text17 \o <<"g", "h">>}

CellRows ==
    { [breakfast |-> b, lunch |-> l, dinner |-> d, snack |-> sn, memo |-> m] :
        b \in BreakfastInputs, l \in LunchInputs, d \in DinnerInputs,
        sn \in SnackInputs, m \in MemoInputs }

\* render_month_calendar: the summary of the day's row
Summarize ==
    /\ cell.op = "row"
    /\ cell' = [op |-> "summary", row |-> cell.row, out |-> summarize_cell(cell.row)]
    /\ UNCHANGED <<db, journal, pc, local, now, ret, written, orig, crashed, q>>

InitCell ==
    /\ db = init_db(EmptyDb, TimeStr(0))
    /\ journal = <<>>
    /\ pc = "idle"
    /\ local = NoLocal
    /\ now = 0
    /\ ret = NoRet
    /\ written = NothingWritten
    /\ orig = EmptyDb
    /\ crashed = "never"
    /\ q = NoQuery
    /\ cell \in {[op |-> "row", row |-> r] : r \in {<<>>} \cup {<<x>> : x \in CellRows}}

NextCell == Summarize

SpecCell == InitCell /\ [][NextCell]_vars

\* ------------------------------------------------------------------ claims

\* the name a call works with: (user_name or "").strip()
Trimmed(name) == strip(OrEmpty(name))

\* C1: in every state the users registry lists the default user exactly once,
\* and a delete_user call whose trimmed name is the default user (cascade or
\* not, padded with whitespace or not) returns failure and leaves the users
\* table and the meals table as they were.
C1_DefaultUserProtected ==
    /\ [](Count(list_users(db), DefaultUser) = 1)
    /\ [][(ret'.op = "delete_user" /\ Trimmed(ret'.name) = DefaultUser)
            => (~ret'.ok /\ db'.users = db.users /\ db'.meals = db.meals)]_vars

\* C1 witness: delete_user(" <default> ", cascade) was refused while the default
\* user had meals and another user was registered.
C1_Witness ==
    /\ ret.op = "delete_user"
    /\ ret.name = <<" ">> \o DefaultUser \o <<" ">>
    /\ ret.cascade
    /\ ~ret.ok
    /\ user_has_meals(db, DefaultUser)
    /\ Len(list_users(db)) = 3

\* C2: add_user succeeds exactly when the trimmed name is non-empty, at most
\* 20 characters long and not registered; after a success list_users holds the
\* trimmed name once; a failure leaves the registry unchanged; the registry
\* never lists a name twice.
C2_AddUser ==
    /\ [](\A i, j \in 1..Len(list_users(db)) :
             list_users(db)[i] = list_users(db)[j] => i = j)
    /\ [][ret'.op = "add_user" =>
            LET name == Trimmed(ret'.name)
            IN /\ ret'.ok <=> (/\ name # <<>>
                               /\ Len(name) <= 20
                               /\ \A i \in 1..Len(list_users(db)) :
                                     list_users(db)[i] # name)
               /\ ret'.ok => Count(list_users(db'), name) = 1
               /\ ~ret'.ok => db'.users = db.users]_vars

\* C2 witness: a 20-character name passed with surrounding whitespace was
\* added, beside the default user and one more user.
C2_Witness ==
    /\ ret.op = "add_user"
    /\ ret.ok
    /\ Len(ret.name) = 22
    /\ Count(list_users(db), Name20) = 1
    /\ Len(list_users(db)) = 3

\* the rows of a table with their updated_at blanked
WithoutStamp(rows) == {[r EXCEPT !.updated_at = <<>>] : r \in rows}

\* C3: after any sequence of upsert_meal calls the meals table holds at most
\* one row per (user_name, meal_date), load_meal returns the five values of the
\* most recent upsert_meal for that key (None when the key was never written),
\* and an upsert whose values are the stored ones changes only updated_at.
C3_UpsertReplaces ==
    /\ [](\A k \in MealKeys :
             /\ Cardinality(KeyRows(db, k[1], k[2])) <= 1
             /\ load_meal(db, k[1], k[2]) = written[k])
    /\ [][(/\ ret'.op = "upsert_meal"
           /\ load_meal(db, ret'.name, ret'.date) = ret'.vals)
            => /\ WithoutStamp(db'.meals) = WithoutStamp(db.meals)
               /\ \A r \in KeyRows(db', ret'.name, ret'.date) :
                     r.updated_at = TimeStr(now)]_vars

\* C3 witness: a key that held a record was saved again, with three empty
\* fields, while all four keys hold records and the clock has advanced.
C3_Witness ==
    /\ ret.op = "upsert_meal"
    /\ ret.had
    /\ ret.vals[2] = <<>>
    /\ load_meal(db, ret.name, ret.date) = ret.vals
    /\ Cardinality(db.meals) = 4
    /\ now = MaxClock
    /\ \E k \in MealKeys : written[k][2] # <<>>

\* what the single-user row r of a table with columns cols is to become
ExpectedRow(cols, r) ==
    [user_name |-> DefaultUser,
     meal_date |-> r.meal_date,
     breakfast |-> r.breakfast,
     lunch |-> r.lunch,
     dinner |-> r.dinner,
     snack |-> IF "snack" \in cols THEN r.snack ELSE <<>>,
     memo |-> IF "memo" \in cols THEN r.memo ELSE <<>>,
     updated_at |-> IF "updated_at" \in cols THEN r.updated_at ELSE <<>>]

\* the multi-user rows a single-user store d is to become
Expected(d) == {ExpectedRow(d.schema.meals, r) : r \in d.meals}

\* init_db has returned and nothing has happened since
InitDbReturned == pc = "idle" /\ ret.op = "init_db"

\* C4: when init_db has returned, meals has the multi-user columns with one
\* row per key and there is no meals_new; started on a single-user table it
\* holds exactly one row per single-user row, under the default user, with the
\* old values and "" for the columns the old table lacked; a run that starts
\* on a multi-user store changes no row of meals or users.
C4_InitDbMigrates ==
    /\ [](InitDbReturned =>
            /\ db.schema.meals = MultiCols
            /\ db.schema.meals_new = NoTable
            /\ db.meals_new = {}
            /\ \A r, t \in db.meals : SameKey(r, t) => r = t
            /\ IsLegacy(orig) =>
                  /\ db.meals = Expected(orig)
                  /\ Cardinality(db.meals) = Cardinality(orig.meals))
    /\ [][(pc = "commit" /\ pc' = "idle" /\ IsMulti(local.start))
            => (db'.meals = local.start.meals /\ db'.users = local.start.users)]_vars

\* C4 witness: a single-user table without snack, memo and updated_at, with a
\* column init_db does not know and three rows, was migrated without any
\* interruption, and init_db then ran again on the result.
C4_Witness ==
    /\ InitDbReturned
    /\ crashed = "never"
    /\ orig.schema.meals = LegacyCore \cup {"kcal"}
    /\ Cardinality(orig.meals) = 3
    /\ Cardinality(db.meals) = 3
    /\ IsMulti(local.start)
    /\ local.start.meals = db.meals

\* C5: while init_db runs on a single-user table, the meals table is gone only
\* when meals_new holds every row; whenever no init_db is running (before it,
\* after an interruption at any statement, after its return) the file holds
\* every single-user row, either still in the single-user table or under the
\* default user in the multi-user table; an interrupted init_db that is invoked
\* again can always take its next step, and when it has returned the
\* multi-user meals table holds every single-user row.
C5_InterruptedMigration ==
    IsLegacy(orig) =>
        /\ (pc # "idle" /\ db.schema.meals = NoTable) => Expected(orig) \subseteq db.meals_new
        /\ pc = "idle" =>
              \/ db.schema.meals = orig.schema.meals /\ db.meals = orig.meals
              \/ db.schema.meals = MultiCols /\ Expected(orig) \subseteq db.meals
        /\ pc # "idle" => ENABLED InitDbStep
        /\ InitDbReturned =>
              (db.schema.meals = MultiCols /\ Expected(orig) \subseteq db.meals)

\* C5 witness: init_db was interrupted between DROP TABLE meals and the
\* RENAME, was invoked again and returned with all three rows migrated.
C5_Witness ==
    /\ InitDbReturned
    /\ crashed = "rename"
    /\ IsLegacy(orig)
    /\ Cardinality(orig.meals) = 3
    /\ db.schema.meals = MultiCols
    /\ db.meals = Expected(orig)

\* the rows of meals that belong to other users than name
OtherMeals(d, name) == {r \in d.meals : r.user_name # name}

\* C6: after delete_user with a non-empty name that does not trim to the
\* default user, the registry has no row of that name and every other row as
\* before (the call succeeds unless the name is blank); with cascade every meal
\* row of that user is gone (user_has_meals is false) and the rows of the other
\* users are as before; without cascade the meals table is unchanged; add_user
\* changes no meal row, so load_meal for a name that is registered again
\* returns what was stored before the deletion.
C6_DeleteUser ==
    /\ [][(/\ ret'.op = "delete_user"
           /\ OrEmpty(ret'.name) # <<>>
           /\ Trimmed(ret'.name) # DefaultUser)
            => LET name == Trimmed(ret'.name)
               IN /\ ret'.ok <=> name # <<>>
                  /\ UserRows(db', name) = {}
                  /\ UserRows(db', ret'.name) = {}
                  /\ \A u \in {r.user_name : r \in db.users} \ {name} :
                        UserRows(db', u) = UserRows(db, u)
                  /\ ret'.cascade =>
                        /\ ~user_has_meals(db', name)
                        /\ ~user_has_meals(db', ret'.name)
                        /\ \A d \in Dates : load_meal(db', name, d) = <<>>
                        /\ OtherMeals(db', name) = OtherMeals(db, name)
                  /\ ~ret'.cascade => db'.meals = db.meals]_vars
    /\ [][ret'.op = "add_user" =>
            \A u \in MealUsers, d \in Dates :
               load_meal(db', u, d) = load_meal(db, u, d)]_vars

\* C6 witness: a user who had meals was deleted with cascade; none of that
\* user's rows is left and the default user's two rows are.
C6_Witness ==
    /\ ret.op = "delete_user"
    /\ ret.ok
    /\ ret.cascade
    /\ ret.had
    /\ ~user_has_meals(db, ret.name)
    /\ Cardinality({r \in db.meals : r.user_name = DefaultUser}) = 2

\* C10: a meal row that exists is still there after init_db, add_user,
\* upsert_meal, delete_user of another user and delete_user without cascade;
\* a key loses its row only in a delete_user call with cascade for that user.
C10_RecordLifetime ==
    [][\A k \in MealKeys :
          (KeyRows(db, k[1], k[2]) # {} /\ KeyRows(db', k[1], k[2]) = {})
             => (/\ ret'.op = "delete_user"
                 /\ ret'.cascade
                 /\ Trimmed(ret'.name) = k[1])]_vars

\* C10 witness: a user with two saved days was deleted without cascade; the
\* registry row is gone, the two meal rows are still there.
C10_Witness ==
    /\ ret.op = "delete_user"
    /\ ret.ok
    /\ ~ret.cascade
    /\ ret.had
    /\ UserRows(db, Trimmed(ret.name)) = {}
    /\ Cardinality(OtherMeals(db, DefaultUser)) = 2

\* the rows of meals with another key than (user_name, meal_date)
OtherKeys(d, user_name, meal_date) ==
    d.meals \ KeyRows(d, user_name, meal_date)

\* the names in the registry
Registered(d) == {r.user_name : r \in d.users}

\* C11: upsert_meal(u, d, ...) leaves every meal row with another user or
\* another date as it was, updated_at included, leaves the users registry and
\* the tables as they were, and stores its row whether or not u is a
\* registered user: after the call the key (u, d) has exactly one row, with the
\* values passed and the time of the call.
C11_UpsertFrame ==
    [][ret'.op = "upsert_meal"
        => /\ OtherKeys(db', ret'.name, ret'.date)
                = OtherKeys(db, ret'.name, ret'.date)
           /\ db'.users = db.users
           /\ db'.schema = db.schema
           /\ db'.meals_new = db.meals_new
           /\ Cardinality(KeyRows(db', ret'.name, ret'.date)) = 1
           /\ \A r \in KeyRows(db', ret'.name, ret'.date) :
                 /\ <<r.breakfast, r.lunch, r.dinner, r.snack, r.memo>> = ret'.vals
                 /\ r.updated_at = TimeStr(now)]_vars

\* C11 witness: a meal was saved at time 1 for a name that is not in the
\* registry, over a row of that key; the three rows with the other keys, one
\* of them the default user's row of the same date, still carry time 0.
C11_Witness ==
    /\ ret.op = "upsert_meal"
    /\ ret.had
    /\ ret.name \notin Registered(db)
    /\ now = 1
    /\ \A r \in KeyRows(db, ret.name, ret.date) : r.updated_at = TimeStr(1)
    /\ Cardinality(OtherKeys(db, ret.name, ret.date)) = 3
    /\ \A r \in OtherKeys(db, ret.name, ret.date) : r.updated_at = TimeStr(0)

\* the number a digit character stands for
DigitVal(c) == CharCode(c) - 48

\* the calendar date an ISO text YYYY-MM-DD names
ParseIso(t) ==
    date(1000 * DigitVal(t[1]) + 100 * DigitVal(t[2]) + 10 * DigitVal(t[3]) + DigitVal(t[4]),
         10 * DigitVal(t[6]) + DigitVal(t[7]),
         10 * DigitVal(t[9]) + DigitVal(t[10]))

\* the day number of the date a row carries
RowDay(r) == toordinal(ParseIso(r.meal_date))

\* a sequence of rows is in strictly ascending date order
AscendingDays(df) == \A i \in 1..(Len(df) - 1) : RowDay(df[i]) < RowDay(df[i + 1])

\* the row r of meals without the columns outside cols
Projected(r, cols) == [c \in cols |-> r[c]]

\* C7: load_month(user, year, month) returns, in ascending date order, exactly
\* the rows of that user whose date lies in that month, from its first day up
\* to but not including the first day of the next month; for month 12 the end
\* boundary is January 1 of year+1, every December day of the year is inside
\* the range and no January day of the next year is.
C7_LoadMonth ==
    q.op = "month" =>
        LET first == toordinal(date(q.year, q.month, 1))
            next == first + DaysInMonth(q.year, q.month)
            mine == {r \in db.meals :
                        /\ r.user_name = q.user
                        /\ ParseIso(r.meal_date).year = q.year
                        /\ ParseIso(r.meal_date).month = q.month}
        IN /\ {q.df[i] : i \in 1..Len(q.df)}
                 = {Projected(r, MultiCols \ {"user_name"}) : r \in mine}
           /\ Len(q.df) = Cardinality(mine)
           /\ AscendingDays(q.df)
           /\ \A i \in 1..Len(q.df) : first <= RowDay(q.df[i]) /\ RowDay(q.df[i]) < next
           /\ q.month = 12 =>
                 /\ q.end = isoformat(date(q.year + 1, 1, 1))
                 /\ \A day \in 1..31 :
                       /\ StrLeq(q.start, isoformat(date(q.year, 12, day)))
                       /\ StrLess(isoformat(date(q.year, 12, day)), q.end)
                       /\ ~StrLess(isoformat(date(q.year + 1, 1, day)), q.end)

\* C7 witness: December 2024 of the default user, who has rows on November 30,
\* on four December days and on January 1, while another user has a row on
\* December 31.
C7_Witness ==
    /\ q.op = "month"
    /\ q.user = DefaultUser
    /\ q.year = 2024
    /\ q.month = 12
    /\ Len(q.df) = 4
    /\ q.df[4].meal_date = isoformat(date(2024, 12, 31))
    /\ KeyRows(db, DefaultUser, isoformat(date(2024, 11, 30))) # {}
    /\ KeyRows(db, DefaultUser, isoformat(date(2025, 1, 1))) # {}
    /\ KeyRows(db, <<"a">>, isoformat(date(2024, 12, 31))) # {}

\* the five value fields of a row
Values(r) == <<r.breakfast, r.lunch, r.dinner, r.snack, r.memo>>

\* C8: the weekly view starts on a Monday and has exactly 7 rows, row i for the
\* day monday+i; a row shows the user's stored record of that day, or five
\* empty fields when there is none; the week query returns at most 7 rows, each
\* a row of that user with a date from monday up to but not including
\* monday+7, in ascending order.
C8_WeekView ==
    q.op = "week" =>
        LET monday == toordinal(q.monday)
        IN /\ weekday(q.monday) = 0
           /\ monday <= toordinal(q.picked) /\ toordinal(q.picked) < monday + 7
           /\ Len(q.preview) = 7
           /\ \A i \in 1..Len(q.preview) :
                 LET row == q.preview[i]
                     stored == KeyRows(db, q.user, row.meal_date)
                 IN /\ RowDay(row) = monday + i - 1
                    /\ IF stored = {}
                       THEN Values(row) = << <<>>, <<>>, <<>>, <<>>, <<>> >>
                       ELSE \E r \in stored : Values(row) = Values(r)
           /\ Len(q.df_week) <= 7
           /\ AscendingDays(q.df_week)
           /\ \A i \in 1..Len(q.df_week) :
                 /\ monday <= RowDay(q.df_week[i]) /\ RowDay(q.df_week[i]) < monday + 7
                 /\ \E r \in db.meals :
                       r.user_name = q.user /\ Projected(r, WeekCols) = q.df_week[i]

\* C8 witness: a day in the middle of a week was picked; the user has a record
\* on each of its seven days, on the Sunday before and on the Monday after, and
\* another user has records inside the week.
C8_Witness ==
    /\ q.op = "week"
    /\ q.picked # q.monday
    /\ Len(q.df_week) = 7
    /\ Len(q.preview) = 7
    /\ KeyRows(db, q.user, isoformat(plus_days(q.monday, 0 - 1))) # {}
    /\ KeyRows(db, q.user, isoformat(plus_days(q.monday, 7))) # {}
    /\ \E r \in db.meals : r.user_name # q.user /\ r.meal_date = q.preview[2].meal_date

\* a text with its blank ends removed, nothing for a missing value
Clean(x) ==
    IF x = NULL THEN <<>>
    ELSE LET inner == {i \in 1..Len(x) : ~IsSpace(x[i])}
         IN IF inner = {} THEN <<>>
            ELSE SubSeq(x, CHOOSE i \in inner : \A j \in inner : i <= j,
                           CHOOSE i \in inner : \A j \in inner : j <= i)

\* a text cut to 18 characters, with the ellipsis when something was cut off
Cut(t) == IF Len(t) > 18 THEN [i \in 1..18 |-> t[i]] \o <<Ellipsis>> ELSE t

\* a character occurs in a text
Occurs(c, t) == \E i \in 1..Len(t) : t[i] = c

\* C9: the summary carries the badge of breakfast, lunch, dinner, snack exactly
\* when that field is non-empty after trimming; its main text is the first
\* non-empty of dinner, lunch, breakfast, cut to 18 characters, with an
\* ellipsis only when cut; the memo line is there exactly when the trimmed
\* memo is non-empty; a row of five empty fields and a missing row give "".
C9_SummarizeCell ==
    cell.op = "summary" =>
        IF cell.row = <<>> THEN cell.out = <<>>
        ELSE
          LET r == cell.row[1]
              b == Clean(r.breakfast)
              l == Clean(r.lunch)
              d == Clean(r.dinner)
              sn == Clean(r.snack)
              m == Clean(r.memo)
              main == IF d # <<>> THEN d ELSE IF l # <<>> THEN l ELSE b
              marks == (IF b # <<>> THEN <<BadgeBreakfast>> ELSE <<>>)
                       \o (IF l # <<>> THEN <<BadgeLunch>> ELSE <<>>)
                       \o (IF d # <<>> THEN <<BadgeDinner>> ELSE <<>>)
                       \o (IF sn # <<>> THEN <<BadgeSnack>> ELSE <<>>)
              spaced == [i \in 1..(2 * Len(marks) - 1) |->
                            IF i % 2 = 1 THEN marks[(i + 1) \div 2] ELSE " "]
              line1 == IF marks = <<>> THEN <<>>
                       ELSE IF main = <<>> THEN spaced
                       ELSE spaced \o <<" ">> \o Cut(main)
              line2 == IF m = <<>> THEN <<>> ELSE <<MemoMark, " ">> \o Cut(m)
          IN /\ Occurs(BadgeBreakfast, cell.out) <=> b # <<>>
             /\ Occurs(BadgeLunch, cell.out) <=> l # <<>>
             /\ Occurs(BadgeDinner, cell.out) <=> d # <<>>
             /\ Occurs(BadgeSnack, cell.out) <=> sn # <<>>
             /\ Occurs(MemoMark, cell.out) <=> m # <<>>
             /\ Occurs(Ellipsis, cell.out) <=> (Len(main) > 18 \/ Len(m) > 18)
             /\ cell.out = IF line1 # <<>> /\ line2 # <<>>
                           THEN line1 \o <<"\n">> \o line2
                           ELSE line1 \o line2
             /\ cell.out = <<>> <=> (b = <<>> /\ l = <<>> /\ d = <<>> /\ sn = <<>> /\ m = <<>>)

\* C9 witness: breakfast and a blank-padded dinner of 19 characters with a
\* blank at position 18, no lunch, a snack, a memo of 18 characters: the
\* dinner is the main text and is cut, the memo is not.
C9_Witness ==
    /\ cell.op = "summary"
    /\ cell.row # <<>>
    /\ cell.row[1].breakfast = <<"a", "b">>
    /\ cell.row[1].lunch = <<" ">>
    /\ cell.row[1].dinner = Text17 \o <<" ", "e">>
    /\ cell.row[1].snack = <<"d">>
    /\ cell.row[1].memo = Text17 \o <<"g">>
    /\ cell.out = <<BadgeBreakfast, " ", BadgeDinner, " ", BadgeSnack, " ">>
                     \o Text17 \o <<" ", Ellipsis, "\n", MemoMark, " ">>
                     \o Text17 \o <<"g">>

====
